---- MODULE Spec2Model ----
(***************************************************************************)
(* Model of irc_test_runner.py: the Runner session (start_server,          *)
(* wait_for_listen, run_tester, stop_server, _print_summary, run) and the   *)
(* main / __main__ wrappers, together with the operating-system processes  *)
(* the session talks to: the server process group (leader and forked       *)
(* helpers), the tester (client) process, and the TCP port.                *)
(*                                                                         *)
(* The orchestrator is single threaded; pc is the position of that thread. *)
(* User interrupts (KeyboardInterrupt) are delivered at the three blocking *)
(* points of the session: the readiness poll, the client wait and the      *)
(* waits of stop_server.                                                   *)
(***************************************************************************)
EXTENDS Integers, Sequences, FiniteSets, TLC

(* ------------------------------ bounds -------------------------------- *)
\* largest --timeout, counted in failed connect attempts of wait_for_listen
MaxTimeout == 2
\* largest number of helper processes the server forks into its group
MaxHelpers == 1
\* stop_server calls made on the Runner object after run has returned
MaxExtraStops == 1

(* ----------------------------- constants ------------------------------ *)
\* rc = 99 (run, before the tester is called)
RcSentinel == 99
\* exit codes the tester process may end with
ClientCodes == {0, 1, 2}

VARIABLES
    args,               \* argparse.Namespace: valgrind, timeout, port
    env,                \* file system / tools found by the session
    pc,                 \* position of the orchestrator thread
    caller,             \* who called stop_server: abort, finally, external
    server_proc,        \* Runner.server_proc: <<>> is None, <<1>> a Popen
    server_log_file,    \* Runner.server_log_file set
    valgrind_log_file,  \* Runner.valgrind_log_file set
    logs,               \* valgrind*.log files present in outdir
    leader,             \* server group leader: none, alive, blocked (alive,
                        \* in an uninterruptible kernel wait), zombie, reaped
    helpers,            \* live helper processes in the server's group
    forked,             \* helper processes the server has forked so far
    listener,           \* who accepts connections on the port
    elapsed,            \* time.time() - call time, in wait_for_listen
    ok,                 \* result of wait_for_listen: <<>>, <<TRUE>>, <<FALSE>>
    startErr,           \* exception start_server raised, or "none"
    rc,                 \* run's local rc: <<>> unbound, else <<n>>
    client,             \* tester process: none, running, exited
    clientCode,         \* returncode of the tester process
    testerLog,          \* tester.log opened for writing by this session
    sigs,               \* signals delivered to the server's process group
    stopCalls,          \* stop_server calls made by run
    extraStops,         \* stop_server calls made after run returned
    stopExit,           \* how the last stop_server call was left
    pending,            \* exception in flight while run's finally executes
    report,             \* what summarize_valgrind returned: none, cur, old
    marker,             \* memory-analysis line printed by _print_summary
    ret,                \* value returned by run: <<>> or <<n>>
    excOut,             \* exception that left run / main
    exitCode,           \* exit status of the orchestrator process
    cmd,                \* command line the server was spawned with:
                        \* none, plain, valgrind
    text,               \* text summarize_valgrind read from the log: <<>>
                        \* when nothing was read, else <<t>>
    vg,                 \* result of summarize_valgrind: <<>> is None,
                        \* else <<report>>
    waits               \* server_proc.wait calls that ended (returned or
                        \* timed out) in the current stop_server call

vars == <<args, env, pc, caller, server_proc, server_log_file,
          valgrind_log_file, logs, leader, helpers, forked, listener,
          elapsed, ok, startErr, rc, client, clientCode, testerLog, sigs, stopCalls,
          extraStops, stopExit, pending, report, marker, ret, excOut,
          exitCode, cmd, text, vg, waits>>

\* variables of the operating system side
osVars == <<leader, helpers, forked, listener, client, clientCode, logs>>
\* variables of the session that stop_server never touches
sessionVars == <<args, env, server_log_file, valgrind_log_file, elapsed, ok,
                 startErr, rc, testerLog, report, marker>>

(* ------------------------- exceptions --------------------------------- *)
\* KeyboardInterrupt derives from BaseException, everything else used here
\* derives from Exception
IsException(e) == e \in {"FileNotFoundError", "OSError", "PermissionError",
                         "ProcessLookupError", "TimeoutExpired",
                         "AttributeError", "ValueError"}

\* `except Exception: pass` of stop_server
SwallowedOnlyLookup(e) == e = "ProcessLookupError"
Swallowed(e) == IsException(e)

\* `if not self.server_proc: return`
NoProcessNever(h) == FALSE
NoProcess(h) == h = <<>>

\* `finally: self.server_proc = None`
ClearHandle(h) == <<>>

\* `return 0 if rc == 0 else 1`
SessionCodeSentinelOk(r) == IF r \in {0, RcSentinel} THEN 0 ELSE 1
SessionCodeRaw(r) == IF r \in {0, 1, 2} THEN r ELSE 1
SessionCode(r) == IF r = 0 THEN 0 ELSE 1

\* Runner.tester_path: `if not path.exists(): raise FileNotFoundError`
TesterPathUnchecked(exists) == TRUE
TesterPathOK(exists) == exists

\* start_server, before the spawn: the exception raised when the binary is
\* missing or the `valgrind --version` probe fails, else the command the
\* server is spawned with (valgrind prefix + server command, or the server
\* command alone)
StartCommandFallback(binExists, valgrind, vgOK) ==
    IF ~binExists THEN "FileNotFoundError"
    ELSE IF valgrind /\ vgOK THEN "valgrind"
    ELSE "plain"
StartCommand(binExists, valgrind, vgOK) ==
    IF ~binExists THEN "FileNotFoundError"
    ELSE IF valgrind THEN (IF vgOK THEN "valgrind" ELSE "FileNotFoundError")
    ELSE "plain"

\* wait_for_listen: `while time.time() < deadline`, with e the time elapsed
\* since the call and t the timeout
BeforeDeadlineEarly(e, t) == e + 1 < t
BeforeDeadline(e, t) == e < t

\* run: `ok = wait_for_listen(...); if not ok: ... return 2`: the tester
\* step is reached only with ok true
ProceedToTesterAlways(okv) == TRUE
ProceedToTester(okv) == okv

\* run: `if not ok: self.stop_server() ... return 2`
OnNotListeningNoStop == "return2"
OnNotListening == "stop_call"

\* run: `finally: self.stop_server()` after the tester step left with e
FinallyExceptOnly(e) == IF e = "KeyboardInterrupt" THEN "raise" ELSE "stop_call"
FinallyTarget(e) == "stop_call"

\* main / __main__: exit status when exception e leaves run
\* (KeyboardInterrupt is caught and printed by __main__, the script then
\* ends normally; any Exception reaches sys.exit(1))
StatusOfException(e) == IF e = "KeyboardInterrupt" THEN 0 ELSE 1

\* outcomes of os.killpg(os.getpgid(pid), sig) for a group whose leader is
\* in state l and which has h live helpers: the signal is delivered to the
\* group; when no member of the group is alive any more the platform may
\* instead report the process as gone or refuse the signal
KillpgOutcomes(l, h) ==
    IF l \in {"alive", "blocked"} \/ h > 0
    THEN {"ok"}
    ELSE {"ok", "ProcessLookupError", "PermissionError"}

\* Runner.summarize_valgrind
summarize_valgrind(a, lf, files) ==
    IF ~a.valgrind THEN "none"
    ELSE IF lf /\ "cur" \in files THEN "cur"
    ELSE IF "old" \in files THEN "old"
    ELSE IF "cur" \in files THEN "cur"
    ELSE "none"

(* ----------------------- parse_valgrind_log --------------------------- *)
\* A report text is a sequence of lines. A line with label c stands for a
\* line that carries the literal part of counter c's pattern up to the
\* number ("definitely lost: ", ..., "ERROR SUMMARY: ") followed by the
\* characters num and the pattern's unit; a "noise" line matches no pattern.
Counters == <<"definitely_lost", "indirectly_lost", "possibly_lost",
              "still_reachable", "open_fds", "errors">>
CounterSet == {Counters[i] : i \in 1..Len(Counters)}

Digits == <<"0", "1", "2", "3", "4", "5", "6", "7", "8", "9">>
IsDigit(ch) == \E i \in 1..Len(Digits) : Digits[i] = ch
DigitValue(ch) == (CHOOSE i \in 1..Len(Digits) : Digits[i] = ch) - 1

\* the longest prefix of num made of digits: what `([0-9]+)` captures
RECURSIVE DigitPrefix(_)
DigitPrefix(num) ==
    IF num = <<>> \/ ~IsDigit(Head(num)) THEN <<>>
    ELSE <<Head(num)>> \o DigitPrefix(Tail(num))

\* the text captured by group 1 of counter c's pattern on a line with number
\* num: `([0-9,]+)` takes digits and commas, `([0-9]+)` of open_fds digits
\* only; <<>> when the pattern does not match the line
Group(c, num) == IF c = "open_fds" THEN DigitPrefix(num) ELSE num

\* index of the first line of txt that counter c's pattern matches, 0 if
\* none: `re.search(pattern, text)`
FirstMatch(txt, c) ==
    LET hits == {i \in 1..Len(txt) :
                    txt[i].label = c /\ Group(c, txt[i].num) # <<>>}
    IN IF hits = {} THEN 0
       ELSE CHOOSE i \in hits : \A j \in hits : i <= j

\* the value of a string of decimal digits
RECURSIVE DecimalValue(_)
DecimalValue(ds) ==
    IF ds = <<>> THEN 0
    ELSE 10 * DecimalValue(SubSeq(ds, 1, Len(ds) - 1))
         + DigitValue(ds[Len(ds)])

\* `int(m.group(1))` raises ValueError on any character that is not a digit
IntRaises(g) == \E i \in 1..Len(g) : ~IsDigit(g[i])

\* get(pattern) raises
GetRaises(txt, c) ==
    LET i == FirstMatch(txt, c) IN
    i # 0 /\ IntRaises(Group(c, txt[i].num))

\* `get(pattern) or 0`
GetOrZero(txt, c) ==
    LET i == FirstMatch(txt, c) IN
    IF i = 0 THEN 0 ELSE DecimalValue(Group(c, txt[i].num))

\* parse_valgrind_log raises ValueError
ParseRaises(txt) == \E c \in CounterSet : GetRaises(txt, c)

\* parse_valgrind_log(text), when it does not raise
parse_valgrind_log(txt) == [c \in CounterSet |-> GetOrZero(txt, c)]

\* the report texts a diagnostic log may hold when it is read
Line(c, n) == [label |-> c, num |-> n]
TextEmpty == <<>>
TextClean == <<Line("noise", <<"7">>), Line("definitely_lost", <<"0">>),
               Line("errors", <<"0">>)>>
TextLeak == <<Line("definitely_lost", <<"1", "0">>),
              Line("open_fds", <<"3">>)>>
TextErrors == <<Line("errors", <<"3">>), Line("errors", <<"7">>)>>
TextThousands == <<Line("definitely_lost", <<"1", ",", "0", "2", "4">>),
                   Line("errors", <<"3">>)>>
ReportTexts == {TextEmpty, TextClean, TextLeak, TextErrors, TextThousands}

\* _print_summary: the memory-analysis line printed for the result v of
\* summarize_valgrind (`if vg is not None: ... else: 'Not enabled'`)
SummaryMarker(v) ==
    IF v = <<>> THEN "not_enabled"
    ELSE IF v[1]["definitely_lost"] > 0 \/ v[1]["indirectly_lost"] > 0
            \/ v[1]["errors"] > 0
    THEN "issues"
    ELSE "clean"

\* the group leader has not exited
LeaderAlive(l) == l \in {"alive", "blocked"}

GroupAlive == LeaderAlive(leader) \/ helpers > 0

\* `self.server_proc.wait(timeout=2)` raises TimeoutExpired exactly when the
\* leader in state l has not exited by the end of the two seconds
WaitTimesOutAlways(l) == TRUE
WaitTimesOut(l) == LeaderAlive(l)

\* stop_server: `except subprocess.TimeoutExpired:` of the first wait goes
\* on to the SIGKILL
OnGraceTimeoutSwallow == "swallow"
OnGraceTimeout == "stop_kill"

\* stop_server: a TimeoutExpired of the second wait is raised inside the
\* except clause and reaches `except Exception`; the wait is not repeated
OnKillWaitTimeoutRetry == "retry"
OnKillWaitTimeout == "raise"

(* ------------------------------ Init ---------------------------------- *)
Init ==
    /\ args \in [valgrind : BOOLEAN, timeout : 0..MaxTimeout,
                 port : {"auto", "given"}]
    /\ env \in [binExists : BOOLEAN, vgOK : BOOLEAN, testerExists : BOOLEAN,
                oldLog : BOOLEAN]
    /\ pc = "main"
    /\ caller = "none"
    /\ server_proc = <<>>
    /\ server_log_file = FALSE
    /\ valgrind_log_file = FALSE
    /\ logs = IF env.oldLog THEN {"old"} ELSE {}
    /\ leader = "none"
    /\ helpers = 0
    /\ forked = 0
    /\ listener = "none"
    /\ elapsed = 0
    /\ ok = <<>>
    /\ startErr = "none"
    /\ rc = <<>>
    /\ client = "none"
    /\ clientCode = 0
    /\ testerLog = FALSE
    /\ sigs = <<>>
    /\ stopCalls = 0
    /\ extraStops = 0
    /\ stopExit = "none"
    /\ pending = "none"
    /\ report = "none"
    /\ marker = "none"
    /\ ret = <<>>
    /\ excOut = "none"
    /\ exitCode = <<>>
    /\ cmd = "none"
    /\ text = <<>>
    /\ vg = <<>>
    /\ waits = 0

(* ------------------- leaving run with an exception -------------------- *)
\* exception e propagates out of run, through main, to __main__
Escapes(e) ==
    /\ pc' = "exited"
    /\ excOut' = e
    /\ exitCode' = <<StatusOfException(e)>>


(* -------------------------- main, run: setup -------------------------- *)
\* main: `runner = Runner(ns)`; Runner.__init__ calls ensure_dir(outdir)
Construct ==
    /\ pc = "main"
    /\ UNCHANGED <<cmd, text, vg, waits>>
    /\ \E made \in BOOLEAN :
         IF made
         THEN pc' = "port" /\ UNCHANGED <<excOut, exitCode>>
         ELSE Escapes("OSError")
    /\ UNCHANGED <<caller, server_proc, sigs, stopCalls, extraStops,
                   stopExit, pending, ret>>
    /\ UNCHANGED osVars
    /\ UNCHANGED sessionVars

\* run: `port = self.args.port or find_free_port()`
ResolvePort ==
    /\ pc = "port"
    /\ UNCHANGED <<cmd, text, vg, waits>>
    /\ \E bound \in BOOLEAN :
         IF args.port = "given" \/ bound
         THEN pc' = "start" /\ UNCHANGED <<excOut, exitCode>>
         ELSE Escapes("OSError")
    /\ UNCHANGED <<caller, server_proc, sigs, stopCalls, extraStops,
                   stopExit, pending, ret>>
    /\ UNCHANGED osVars
    /\ UNCHANGED sessionVars

\* run: `except Exception as e: ... return 2` around start_server
StartFailed(e) ==
    /\ startErr' = e
    /\ ret' = <<2>>
    /\ pc' = "done"
    /\ UNCHANGED <<server_proc, leader, logs, elapsed>>

\* run: `try: self.start_server(port)`, then the call of wait_for_listen
StartServer ==
    /\ pc = "start"
    /\ UNCHANGED <<text, vg, waits>>
    /\ LET c == StartCommand(env.binExists, args.valgrind, env.vgOK) IN
       IF c = "FileNotFoundError"
       THEN /\ StartFailed(c)
            /\ UNCHANGED <<server_log_file, valgrind_log_file, cmd>>
       ELSE /\ valgrind_log_file' = (c = "valgrind")
            /\ server_log_file' = TRUE
            /\ \E spawned \in BOOLEAN, wrote \in BOOLEAN :
                 IF spawned
                 THEN /\ server_proc' = <<1>>
                      /\ leader' = "alive"
                      /\ cmd' = c
                      /\ logs' = IF c = "valgrind" /\ wrote
                                 THEN logs \cup {"cur"} ELSE logs
                      /\ elapsed' = 0
                      /\ pc' = "wait"
                      /\ UNCHANGED <<startErr, ret>>
                 ELSE StartFailed("OSError") /\ UNCHANGED cmd
    /\ UNCHANGED <<args, env, caller, helpers, forked, listener, ok, rc, client,
                   clientCode, testerLog, sigs, stopCalls, extraStops,
                   stopExit, pending, report, marker, excOut, exitCode>>

(* ------------------------- wait_for_listen ---------------------------- *)
\* `while time.time() < deadline:` connect succeeds, `return True`
WaitConnected ==
    /\ pc = "wait"
    /\ UNCHANGED <<cmd, text, vg, waits>>
    /\ BeforeDeadline(elapsed, args.timeout)
    /\ listener # "none"
    /\ ok' = <<TRUE>>
    /\ ProceedToTester(TRUE)
    /\ pc' = "tester"
    /\ UNCHANGED <<args, env, caller, server_proc, server_log_file,
                   valgrind_log_file, elapsed, startErr, rc, testerLog,
                   sigs, stopCalls, extraStops, stopExit, pending, report,
                   marker, ret, excOut, exitCode>>
    /\ UNCHANGED osVars

\* connect raises OSError, `time.sleep(0.05)`
WaitRefused ==
    /\ pc = "wait"
    /\ UNCHANGED <<cmd, text, vg, waits>>
    /\ BeforeDeadline(elapsed, args.timeout)
    /\ listener = "none"
    /\ elapsed' = elapsed + 1
    /\ UNCHANGED <<args, env, pc, caller, server_proc, server_log_file,
                   valgrind_log_file, ok, startErr, rc, testerLog, sigs,
                   stopCalls, extraStops, stopExit, pending, report, marker,
                   ret, excOut, exitCode>>
    /\ UNCHANGED osVars

\* deadline reached: `return False`; run: `if not ok: self.stop_server()`
WaitTimedOut ==
    /\ pc = "wait"
    /\ UNCHANGED <<cmd, text, vg, waits>>
    /\ ~BeforeDeadline(elapsed, args.timeout)
    /\ ok' = <<FALSE>>
    /\ IF ProceedToTester(FALSE)
       THEN /\ pc' = "tester"
            /\ UNCHANGED <<caller, stopCalls, ret>>
       ELSE IF OnNotListening = "stop_call"
       THEN /\ pc' = "stop_call"
            /\ caller' = "abort"
            /\ stopCalls' = stopCalls + 1
            /\ UNCHANGED ret
       ELSE /\ pc' = "done"
            /\ ret' = <<2>>
            /\ UNCHANGED <<caller, stopCalls>>
    /\ UNCHANGED <<args, env, server_proc, server_log_file,
                   valgrind_log_file, elapsed, startErr, rc, testerLog, sigs,
                   extraStops, stopExit, pending, report, marker, excOut,
                   exitCode>>
    /\ UNCHANGED osVars

\* KeyboardInterrupt during the readiness poll: no handler in run or main
InterruptWait ==
    /\ pc = "wait"
    /\ UNCHANGED <<cmd, text, vg, waits>>
    /\ Escapes("KeyboardInterrupt")
    /\ UNCHANGED <<caller, server_proc, sigs, stopCalls, extraStops,
                   stopExit, pending, ret>>
    /\ UNCHANGED osVars
    /\ UNCHANGED sessionVars

(* ----------------------------- tester step ---------------------------- *)
\* run: the `finally:` clause is entered with exception e in flight
EnterFinally(e) ==
    IF FinallyTarget(e) = "stop_call"
    THEN /\ pc' = "stop_call"
         /\ caller' = "finally"
         /\ stopCalls' = stopCalls + 1
         /\ pending' = e
         /\ UNCHANGED <<excOut, exitCode>>
    ELSE /\ Escapes(e)
         /\ UNCHANGED <<caller, stopCalls, pending>>

\* run: `rc = 99; try: rc = self.run_tester(port)` up to the Popen of the
\* tester; an Exception is caught by `except Exception`
RunTester ==
    /\ pc = "tester"
    /\ UNCHANGED <<cmd, text, vg, waits>>
    /\ rc' = <<RcSentinel>>
    /\ IF ~TesterPathOK(env.testerExists)
       THEN /\ EnterFinally("none")
            /\ UNCHANGED <<testerLog, client>>
       ELSE /\ testerLog' = TRUE
            /\ \E spawned \in BOOLEAN :
                 IF spawned
                 THEN /\ client' = "running"
                      /\ pc' = "client_wait"
                      /\ UNCHANGED <<caller, stopCalls, pending, excOut,
                                     exitCode>>
                 ELSE /\ EnterFinally("none")
                      /\ UNCHANGED client
    /\ UNCHANGED <<args, env, server_proc, server_log_file,
                   valgrind_log_file, logs, leader, helpers, forked,
                   listener, elapsed, ok, startErr, clientCode, sigs,
                   extraStops,
                   stopExit, report, marker, ret>>

\* run_tester: `while proc.poll() is None` ends, `return proc.returncode`
PollClient ==
    /\ pc = "client_wait"
    /\ UNCHANGED <<cmd, text, vg, waits>>
    /\ client = "exited"
    /\ rc' = <<clientCode>>
    /\ EnterFinally("none")
    /\ UNCHANGED <<args, env, server_proc, server_log_file,
                   valgrind_log_file, elapsed, ok, startErr, testerLog, sigs,
                   extraStops, stopExit, report, marker, ret>>
    /\ UNCHANGED osVars

\* KeyboardInterrupt while run_tester waits for the tester
InterruptClientWait ==
    /\ pc = "client_wait"
    /\ UNCHANGED <<cmd, text, vg, waits>>
    /\ EnterFinally("KeyboardInterrupt")
    /\ UNCHANGED <<server_proc, sigs, extraStops, stopExit, ret>>
    /\ UNCHANGED osVars
    /\ UNCHANGED sessionVars


(* ----------------------------- stop_server ---------------------------- *)
\* control returns from stop_server to its caller; how is "return" or the
\* exception that propagates out of stop_server
Resume(how) ==
    /\ stopExit' = how
    /\ caller' = "none"
    /\ pending' = "none"
    /\ IF caller = "abort"
       THEN IF how = "return"
            THEN pc' = "done" /\ ret' = <<2>> /\ UNCHANGED <<excOut, exitCode>>
            ELSE Escapes(how) /\ UNCHANGED ret
       ELSE IF caller = "finally"
       THEN LET e == IF how # "return" THEN how ELSE pending IN
            IF e = "none"
            THEN pc' = "summary" /\ UNCHANGED <<ret, excOut, exitCode>>
            ELSE Escapes(e) /\ UNCHANGED ret
       ELSE pc' = "done" /\ UNCHANGED <<ret, excOut, exitCode>>

\* `finally: self.server_proc = None`, then control leaves stop_server
StopLeave(how) ==
    /\ server_proc' = ClearHandle(server_proc)
    /\ Resume(how)

\* `except Exception: pass` applied to exception e raised inside the try
StopExcept(e) ==
    IF Swallowed(e) THEN StopLeave("return") ELSE StopLeave(e)

\* `if not self.server_proc: return`
StopCall ==
    /\ pc = "stop_call"
    /\ waits' = 0
    /\ UNCHANGED <<cmd, text, vg>>
    /\ IF NoProcess(server_proc)
       THEN Resume("return") /\ UNCHANGED server_proc
       ELSE /\ pc' = "stop_int"
            /\ UNCHANGED <<server_proc, stopExit, caller, pending, ret,
                           excOut, exitCode>>
    /\ UNCHANGED <<sigs, stopCalls, extraStops>>
    /\ UNCHANGED osVars
    /\ UNCHANGED sessionVars

\* `os.killpg(os.getpgid(self.server_proc.pid), signal.SIGINT)`
StopInt ==
    /\ pc = "stop_int"
    /\ UNCHANGED <<cmd, text, vg, waits>>
    /\ IF server_proc = <<>>
       THEN StopExcept("AttributeError") /\ UNCHANGED sigs
       ELSE \E r \in KillpgOutcomes(leader, helpers) :
              IF r = "ok"
              THEN /\ sigs' = Append(sigs, "INT")
                   /\ pc' = "stop_grace"
                   /\ UNCHANGED <<server_proc, stopExit, caller, pending,
                                  ret, excOut, exitCode>>
              ELSE StopExcept(r) /\ UNCHANGED sigs
    /\ UNCHANGED <<stopCalls, extraStops>>
    /\ UNCHANGED osVars
    /\ UNCHANGED sessionVars

\* `self.server_proc.wait(timeout=2)`: returns once the leader has exited,
\* raises TimeoutExpired while it is alive
StopGraceWait ==
    /\ pc = "stop_grace"
    /\ waits' = waits + 1
    /\ UNCHANGED <<cmd, text, vg>>
    /\ IF WaitTimesOut(leader)
       THEN IF OnGraceTimeout = "stop_kill"
            THEN /\ pc' = "stop_kill"
                 /\ UNCHANGED <<server_proc, stopExit, caller, pending, ret,
                                excOut, exitCode, leader>>
            ELSE StopExcept("TimeoutExpired") /\ UNCHANGED leader
       ELSE /\ leader' = "reaped"
            /\ StopLeave("return")
    /\ UNCHANGED <<sigs, stopCalls, extraStops, helpers, forked, listener,
                   client, clientCode, logs>>
    /\ UNCHANGED sessionVars

\* `os.killpg(os.getpgid(self.server_proc.pid), signal.SIGKILL)`: every
\* member of the group dies, except a leader blocked in the kernel, on which
\* the signal stays pending until it leaves the kernel wait
StopKill ==
    /\ pc = "stop_kill"
    /\ UNCHANGED <<cmd, text, vg, waits>>
    /\ \E r \in KillpgOutcomes(leader, helpers) :
         IF r = "ok"
         THEN /\ sigs' = Append(sigs, "KILL")
              /\ leader' = IF leader = "alive" THEN "zombie" ELSE leader
              /\ helpers' = 0
              /\ listener' = IF listener = "server" /\ leader = "alive"
                             THEN "none" ELSE listener
              /\ pc' = "stop_killwait"
              /\ UNCHANGED <<server_proc, stopExit, caller, pending, ret,
                             excOut, exitCode>>
         ELSE /\ StopExcept(r)
              /\ UNCHANGED <<sigs, leader, helpers, listener>>
    /\ UNCHANGED <<stopCalls, extraStops, forked, client, clientCode, logs>>
    /\ UNCHANGED sessionVars

\* second `self.server_proc.wait(timeout=2)`, inside the except clause
StopKillWait ==
    /\ pc = "stop_killwait"
    /\ waits' = waits + 1
    /\ UNCHANGED <<cmd, text, vg>>
    /\ IF WaitTimesOut(leader)
       THEN IF OnKillWaitTimeout = "raise"
            THEN StopExcept("TimeoutExpired") /\ UNCHANGED leader
            ELSE /\ pc' = "stop_kill"
                 /\ UNCHANGED <<server_proc, stopExit, caller, pending, ret,
                                excOut, exitCode, leader>>
       ELSE leader' = "reaped" /\ StopLeave("return")
    /\ UNCHANGED <<sigs, stopCalls, extraStops, helpers, forked, listener,
                   client, clientCode, logs>>
    /\ UNCHANGED sessionVars

\* KeyboardInterrupt while stop_server waits for the server to exit
InterruptStop ==
    /\ pc \in {"stop_grace", "stop_killwait"}
    /\ UNCHANGED <<cmd, text, vg, waits>>
    /\ StopExcept("KeyboardInterrupt")
    /\ UNCHANGED <<sigs, stopCalls, extraStops>>
    /\ UNCHANGED osVars
    /\ UNCHANGED sessionVars

(* ------------------------- summary, return, exit ---------------------- *)
\* run: `self._print_summary(rc); return 0 if rc == 0 else 1`;
\* _print_summary calls summarize_valgrind, which reads and parses the log it
\* locates; a ValueError of the parser leaves run and reaches main
Summary ==
    /\ pc = "summary"
    /\ UNCHANGED <<cmd, waits>>
    /\ report' = summarize_valgrind(args, valgrind_log_file, logs)
    /\ IF report' = "none"
       THEN /\ text' = <<>>
            /\ vg' = <<>>
            /\ marker' = SummaryMarker(vg')
            /\ ret' = <<SessionCode(rc[1])>>
            /\ pc' = "done"
            /\ UNCHANGED <<excOut, exitCode>>
       ELSE \E t \in ReportTexts :
              /\ text' = <<t>>
              /\ IF ParseRaises(t)
                 THEN /\ Escapes("ValueError")
                      /\ UNCHANGED <<vg, marker, ret>>
                 ELSE /\ vg' = <<parse_valgrind_log(t)>>
                      /\ marker' = SummaryMarker(vg')
                      /\ ret' = <<SessionCode(rc[1])>>
                      /\ pc' = "done"
                      /\ UNCHANGED <<excOut, exitCode>>
    /\ UNCHANGED <<args, env, caller, server_proc, server_log_file,
                   valgrind_log_file, elapsed, ok, startErr, rc, testerLog,
                   sigs, stopCalls, extraStops, stopExit, pending>>
    /\ UNCHANGED osVars

\* main: `rc = runner.run(); sys.exit(rc)`
MainExit ==
    /\ pc = "done"
    /\ UNCHANGED <<cmd, text, vg, waits>>
    /\ exitCode' = ret
    /\ pc' = "exited"
    /\ UNCHANGED <<caller, server_proc, sigs, stopCalls, extraStops,
                   stopExit, pending, ret, excOut>>
    /\ UNCHANGED osVars
    /\ UNCHANGED sessionVars

\* stop_server called again on the Runner after run has returned
StopAgain ==
    /\ pc = "done"
    /\ UNCHANGED <<cmd, text, vg, waits>>
    /\ extraStops < MaxExtraStops
    /\ extraStops' = extraStops + 1
    /\ caller' = "external"
    /\ pc' = "stop_call"
    /\ UNCHANGED <<server_proc, sigs, stopCalls, stopExit, pending, ret,
                   excOut, exitCode>>
    /\ UNCHANGED osVars
    /\ UNCHANGED sessionVars

(* ------------------------- the other processes ------------------------ *)
orchVars == <<args, env, pc, caller, server_proc, server_log_file,
              valgrind_log_file, elapsed, ok, startErr, rc, testerLog, sigs,
              stopCalls, extraStops, stopExit, pending, report, marker, ret,
              excOut, exitCode>>

\* the server binds the port and listens
ServerListens ==
    /\ leader = "alive"
    /\ UNCHANGED <<cmd, text, vg, waits>>
    /\ listener = "none"
    /\ listener' = "server"
    /\ UNCHANGED <<leader, helpers, forked, client, clientCode, logs>>
    /\ UNCHANGED orchVars

\* another process of the machine holds the port: a port given by the caller
\* may be in use before the session resolves it, a port find_free_port has
\* released may be taken before the server binds it
OtherListens ==
    /\ \/ pc \in {"start", "wait"}
       \/ pc = "port" /\ args.port = "given"
    /\ UNCHANGED <<cmd, text, vg, waits>>
    /\ listener = "none"
    /\ listener' = "other"
    /\ UNCHANGED <<leader, helpers, forked, client, clientCode, logs>>
    /\ UNCHANGED orchVars

\* the group leader enters an uninterruptible kernel wait
ServerBlocks ==
    /\ leader = "alive"
    /\ UNCHANGED <<cmd, text, vg, waits>>
    /\ leader' = "blocked"
    /\ UNCHANGED <<helpers, forked, listener, client, clientCode, logs>>
    /\ UNCHANGED orchVars

\* the group leader exits (on its own, or in reaction to a signal)
ServerExits ==
    /\ LeaderAlive(leader)
    /\ UNCHANGED <<cmd, text, vg, waits>>
    /\ leader' = "zombie"
    /\ listener' = IF listener = "server" THEN "none" ELSE listener
    /\ UNCHANGED <<helpers, forked, client, clientCode, logs>>
    /\ UNCHANGED orchVars

\* the server forks a helper, which stays in the server's process group
HelperForks ==
    /\ leader = "alive"
    /\ UNCHANGED <<cmd, text, vg, waits>>
    /\ forked < MaxHelpers
    /\ forked' = forked + 1
    /\ helpers' = helpers + 1
    /\ UNCHANGED <<leader, listener, client, clientCode, logs>>
    /\ UNCHANGED orchVars

\* a helper exits (on its own, or in reaction to SIGINT)
HelperExits ==
    /\ helpers > 0
    /\ UNCHANGED <<cmd, text, vg, waits>>
    /\ helpers' = helpers - 1
    /\ UNCHANGED <<leader, forked, listener, client, clientCode, logs>>
    /\ UNCHANGED orchVars

\* the tester process exits with code c
ClientExits ==
    /\ client = "running"
    /\ UNCHANGED <<cmd, text, vg, waits>>
    /\ \E c \in ClientCodes : clientCode' = c
    /\ client' = "exited"
    /\ UNCHANGED <<leader, helpers, forked, listener, logs>>
    /\ UNCHANGED orchVars

Next ==
    \/ Construct \/ ResolvePort \/ StartServer
    \/ WaitConnected \/ WaitRefused \/ WaitTimedOut \/ InterruptWait
    \/ RunTester \/ PollClient \/ InterruptClientWait
    \/ StopCall \/ StopInt \/ StopGraceWait \/ StopKill \/ StopKillWait
    \/ InterruptStop
    \/ Summary \/ MainExit \/ StopAgain
    \/ ServerListens \/ OtherListens \/ ServerBlocks \/ ServerExits
    \/ HelperForks \/ HelperExits \/ ClientExits

Spec == Init /\ [][Next]_vars

\* the steps of the orchestrator thread itself
OrchestratorStep ==
    \/ Construct \/ ResolvePort \/ StartServer
    \/ WaitConnected \/ WaitRefused \/ WaitTimedOut
    \/ RunTester \/ PollClient
    \/ StopCall \/ StopInt \/ StopGraceWait \/ StopKill \/ StopKillWait
    \/ Summary \/ MainExit

\* the orchestrator thread keeps running while it has a step to take
FairSpec == Spec /\ WF_vars(OrchestratorStep)

TypeOK ==
    /\ pc \in {"main", "port", "start", "wait", "tester", "client_wait",
               "stop_call", "stop_int", "stop_grace", "stop_kill",
               "stop_killwait", "summary", "done", "exited"}
    /\ server_proc \in {<<>>, <<1>>}
    /\ leader \in {"none", "alive", "blocked", "zombie", "reaped"}
    /\ helpers \in 0..MaxHelpers
    /\ forked \in helpers..MaxHelpers
    /\ Len(sigs) <= 2


(* ============================== claims ================================ *)

\* C1: once run has returned (0, 1 or 2), no process of the server's
\* process group is alive any more.
NoOrphanAfterRun == ret # <<>> => ~GroupAlive

\* C2: when a user interrupt ends the orchestrator after the server was
\* spawned, the server's process group has been terminated by the time the
\* orchestrator has exited.
InterruptTerminatesGroup ==
    (pc = "exited" /\ excOut = "KeyboardInterrupt") => ~GroupAlive

\* C3: once the client step has been entered (rc bound to the sentinel),
\* run does not get past it (to the summary, to its return, or out by an
\* exception) without stop_server having been called and left, whether the
\* client step returned an exit code or raised.
StopBeforeLeavingClientStep ==
    (rc # <<>> /\ pc \in {"summary", "done", "exited"})
        => (stopCalls = 1 /\ stopExit # "none" /\ server_proc = <<>>)

\* C3 witness: the client step raised (no client was spawned), stop_server
\* ran and signalled the group, and run is past the client step.
ClientStepRaisedAndStopped ==
    /\ pc = "summary"
    /\ rc = <<RcSentinel>>
    /\ client = "none"
    /\ stopCalls = 1
    /\ sigs # <<>>

\* C4 (as stated): whenever run returns 2, stop_server was called before.
AbortAlwaysCallsStop == ret = <<2>> => stopCalls >= 1

\* C4 (amended): run returns 2 only after start_server raised or
\* wait_for_listen returned false. After a false readiness result
\* stop_server was called and left normally before the return; after a
\* start_server exception stop_server is not called, no process was spawned
\* and the handle is empty. In both cases the returned value is non-zero and
\* the handle is empty.
AbortContract ==
    /\ ret = <<2>> =>
         /\ server_proc = <<>>
         /\ startErr # "none" \/ ok = <<FALSE>>
         /\ ok = <<FALSE>> => (stopCalls = 1 /\ stopExit = "return")
         /\ startErr # "none" =>
              (stopCalls = 0 /\ leader = "none" /\ ok = <<>>)
    /\ (ret # <<>> /\ (startErr # "none" \/ ok = <<FALSE>>)) => ret[1] # 0

\* C4 witness: readiness timed out, stop_server signalled the group, run
\* returned 2.
AbortedAfterTimeout == ret = <<2>> /\ ok = <<FALSE>> /\ sigs # <<>>

\* C5: a stop_server call that finds the handle empty returns at once to its
\* caller without an error, changes no field of the Runner, delivers no
\* signal and changes nothing in any process.
StopOnEmptyHandleIsNoOp ==
    [][(pc = "stop_call" /\ server_proc = <<>> /\ pc' # pc)
          => /\ pc' \in {"done", "summary"}
             /\ stopExit' = "return"
             /\ ret' = ret /\ excOut' = excOut /\ exitCode' = exitCode
             /\ UNCHANGED <<server_proc, server_log_file, valgrind_log_file,
                            sigs, leader, helpers, forked, listener, logs>>
      ]_vars

\* C5 witness: a first stop_server call signalled the group, a second call
\* made afterwards has returned, and exactly the first call's signals exist.
StoppedTwice ==
    /\ pc = "done"
    /\ stopCalls = 1
    /\ extraStops = 1
    /\ Len(sigs) >= 1
    /\ stopExit = "return"
    /\ server_proc = <<>>

\* C6: no OS-level error (PermissionError, ProcessLookupError,
\* TimeoutExpired of the wait after the kill) leaves stop_server or the
\* orchestrator, and once stop_server has been left the handle is empty.
StopSwallowsOSErrors ==
    /\ stopExit \in {"none", "return", "KeyboardInterrupt"}
    /\ excOut \notin {"PermissionError", "ProcessLookupError",
                      "TimeoutExpired", "AttributeError"}
    /\ stopExit # "none" => server_proc = <<>>

\* C6 witness: both signals were sent, the wait after the kill timed out
\* (the leader is still alive), and stop_server nevertheless returned
\* normally with the handle cleared.
KillWaitTimeoutSwallowed ==
    /\ stopExit = "return"
    /\ server_proc = <<>>
    /\ leader = "blocked"
    /\ sigs = <<"INT", "KILL">>

\* C7: when run has returned, it returned 0 if and only if the tester
\* process was run and exited with code 0.
ZeroIffClientExitedZero ==
    ret # <<>> => (ret = <<0>> <=> (client = "exited" /\ clientCode = 0))

\* C7 witness: the tester exited 0 and run returned 0.
ReturnedZero == ret = <<0>> /\ client = "exited" /\ rc = <<0>>

\* C8 (as stated): run returns 1 only when the tester process ran and
\* exited non-zero.
OneOnlyIfClientRanAndFailed ==
    ret = <<1>> => (client = "exited" /\ clientCode # 0)

\* C8 (amended): run returns 1 exactly when the client step was entered
\* (after the server was observed ready) and did not yield exit code 0:
\* the tester ran and exited non-zero, or the client step raised before the
\* tester was spawned, which leaves rc at its sentinel. The orchestrator
\* process otherwise exits with status 1 only when an Exception escapes run
\* and reaches main.
OneOnlyAfterClientStep ==
    /\ ret = <<1>> =>
         /\ ok = <<TRUE>>
         /\ stopCalls = 1
         /\ rc \notin {<<>>, <<0>>}
         /\ client = "exited" => (clientCode # 0 /\ rc = <<clientCode>>)
         /\ client = "none" => rc = <<RcSentinel>>
    /\ (ret # <<>> /\ rc \notin {<<>>, <<0>>}) => ret = <<1>>
    /\ exitCode = <<1>> => (ret = <<1>> \/ IsException(excOut))

\* C8 witness: the tester was never spawned and run returned 1.
ReturnedOneWithoutClient == ret = <<1>> /\ client = "none"

\* C9: when run has returned, it returned 2 if and only if start_server
\* raised or wait_for_listen returned false; once wait_for_listen returned
\* true, neither run's value nor the exit status is 2.
TwoIffNeverReady ==
    /\ ret # <<>> =>
         (ret = <<2>> <=> (startErr # "none" \/ ok = <<FALSE>>))
    /\ ok = <<TRUE>> => (ret # <<2>> /\ exitCode # <<2>>)

\* C9 witness: the server was observed ready, the tester itself exited with
\* code 2, and run returned 1.
ClientCodeTwoGivesOne ==
    ret = <<1>> /\ ok = <<TRUE>> /\ client = "exited" /\ clientCode = 2

\* C10 (as stated): in a session whose tester path does not exist the
\* server process is never spawned.
MissingTesterNoServer == ~env.testerExists => leader = "none"

\* C10 (amended): in a session whose tester path does not exist the tester
\* process is never spawned, tester.log is never opened and run never
\* returns 0; the path is only checked inside the client step, after the
\* server was spawned and observed ready, and the session then calls
\* stop_server and returns 1.
MissingTesterNoClient ==
    ~env.testerExists =>
        /\ client = "none"
        /\ ~testerLog
        /\ ret # <<0>>
        /\ rc # <<>> =>
             /\ rc = <<RcSentinel>>
             /\ leader # "none"
             /\ ok = <<TRUE>>
             /\ stopCalls = 1
        /\ (ret # <<>> /\ ok = <<TRUE>>) => ret = <<1>>

\* C10 witness: the tester path is missing, the server was spawned, and run
\* returned 1 after stopping it.
MissingTesterAfterServer ==
    /\ ~env.testerExists
    /\ leader # "none"
    /\ sigs # <<>>
    /\ ret = <<1>>

\* C11: when the server executable does not exist, or diagnostics were
\* requested and the valgrind version probe fails, start_server raises, no
\* server process is spawned and the handle stays empty; a session that
\* requested diagnostics never runs the server without the valgrind prefix.
StartFailureSpawnsNothing ==
    /\ (~env.binExists \/ (args.valgrind /\ ~env.vgOK)) =>
         /\ leader = "none"
         /\ server_proc = <<>>
         /\ cmd = "none"
         /\ ret # <<>> => (startErr = "FileNotFoundError" /\ ret = <<2>>)
    /\ (args.valgrind /\ cmd # "none") => cmd = "valgrind"
    /\ cmd = "none" <=> leader = "none"

\* C11 witness: diagnostics requested, the binary exists, the valgrind probe
\* failed, start_server raised and run returned 2 with nothing spawned.
ProbeFailedNothingSpawned ==
    /\ args.valgrind
    /\ env.binExists
    /\ ~env.vgOK
    /\ startErr = "FileNotFoundError"
    /\ ret = <<2>>
    /\ leader = "none"

\* C12: wait_for_listen returns true only in a step in which a connect to
\* the port succeeded, and false only once the time elapsed since the call
\* has reached the timeout; while it polls the elapsed time never exceeds the
\* timeout and every failed attempt advances it, so when no listener opens
\* the result is false; and the call always ends.
WaitForListenContract ==
    /\ [][(ok = <<>> /\ ok' = <<TRUE>>)
            => (pc = "wait" /\ listener # "none"
                /\ elapsed < args.timeout)]_vars
    /\ [][(ok = <<>> /\ ok' = <<FALSE>>)
            => (pc = "wait" /\ elapsed >= args.timeout)]_vars
    /\ [][(pc = "wait" /\ pc' = "wait" /\ elapsed' # elapsed)
            => (listener = "none" /\ elapsed' = elapsed + 1)]_vars
    /\ [](pc = "wait" => elapsed <= args.timeout)
    /\ [](ok = <<FALSE>> => elapsed = args.timeout)
    /\ (pc = "wait") ~> (pc # "wait")

\* C12 witness: no listener opened, both attempts allowed by a timeout of
\* two were refused, and wait_for_listen returned false.
TimedOutAfterPolling ==
    /\ ok = <<FALSE>>
    /\ args.timeout = 2
    /\ elapsed = 2
    /\ listener = "none"

\* C13: the exit status of a session that got past the client step without
\* a user interrupt depends on the tester's exit only (0 when it exited 0,
\* else 1), whatever the diagnostic log holds and whether or not one exists.
ExitCodeIgnoresDiagnostics ==
    (pc = "exited" /\ rc # <<>> /\ excOut # "KeyboardInterrupt")
        => exitCode = IF client = "exited" /\ clientCode = 0
                      THEN <<0>> ELSE <<1>>

\* the number string num with its thousands separators removed
RECURSIVE StripCommas(_)
StripCommas(num) ==
    IF num = <<>> THEN <<>>
    ELSE IF Head(num) = "," THEN StripCommas(Tail(num))
    ELSE <<Head(num)>> \o StripCommas(Tail(num))

\* the report C14 describes: per counter the first integer matching the
\* counter's pattern, thousands separators ignored, 0 when absent
ExpectedReport(txt) ==
    [c \in CounterSet |->
        LET i == FirstMatch(txt, c) IN
        IF i = 0 THEN 0
        ELSE DecimalValue(StripCommas(Group(c, txt[i].num)))]

\* C14: parse_valgrind_log never fails on a text, and returns for each of
\* the six counters the first integer matching its pattern with thousands
\* separators ignored, and 0 for a counter whose pattern is absent.
ParserMatchesContract ==
    text # <<>> =>
        (excOut # "ValueError" /\ vg = <<ExpectedReport(text[1])>>)

\* C15: once the summary is printed, the "not enabled" marker is shown
\* exactly when diagnostics were not requested.
NotEnabledIffNotRequested ==
    marker # "none" => (marker = "not_enabled" <=> ~args.valgrind)

\* C16: after stop_server has signalled the group and returned, no member of
\* the server's process group (leader or helper) is alive.
StopTerminatesWholeGroup ==
    (stopExit = "return" /\ sigs # <<>>) => ~GroupAlive

\* positions of the orchestrator inside stop_server
StopPcs == {"stop_call", "stop_int", "stop_grace", "stop_kill",
            "stop_killwait"}

\* C17: the signals of stop_server follow the two-phase order: SIGINT is
\* sent to the group first; SIGKILL is sent only after SIGINT and only after
\* the grace-period wait timed out with the leader still alive; when the wait
\* returned within the grace period no SIGKILL is ever sent.
TwoPhaseOrder ==
    /\ [](sigs \in {<<>>, <<"INT">>, <<"INT", "KILL">>})
    /\ [][sigs' # sigs =>
            \/ (pc = "stop_int" /\ sigs = <<>> /\ sigs' = <<"INT">>)
            \/ (pc = "stop_kill" /\ waits = 1 /\ sigs = <<"INT">>
                /\ sigs' = <<"INT", "KILL">>)]_vars
    /\ [][(pc = "stop_grace" /\ pc' = "stop_kill")
            => LeaderAlive(leader)]_vars
    /\ [][(pc = "stop_grace" /\ ~LeaderAlive(leader) /\ pc' # pc)
            => (pc' \notin StopPcs /\ sigs' = sigs)]_vars
    /\ []((leader = "reaped" /\ waits = 1) => sigs = <<"INT">>)

\* C17 witness: the leader ignored SIGINT for the grace period, was killed
\* by the following SIGKILL and reaped by the second wait.
KilledAfterGrace ==
    /\ sigs = <<"INT", "KILL">>
    /\ leader = "reaped"
    /\ waits = 2
    /\ stopExit = "return"

\* steps stop_server can still take from position p
StopRank(p) ==
    CASE p = "stop_call" -> 5
      [] p = "stop_int" -> 4
      [] p = "stop_grace" -> 3
      [] p = "stop_kill" -> 2
      [] p = "stop_killwait" -> 1
      [] OTHER -> 0

\* C18: stop_server always returns within bounded time: it makes at most two
\* waits of two seconds each (the grace period and one further wait), every
\* step it takes brings it closer to its exit, and it always leaves,
\* whatever the server does.
StopIsBounded ==
    /\ [](waits <= 2)
    /\ [][(pc \in StopPcs /\ pc' # pc)
            => StopRank(pc') < StopRank(pc)]_vars
    /\ (pc \in StopPcs) ~> (pc \notin StopPcs)

\* C18 witness: both waits timed out or ended and stop_server has returned
\* while the leader never exited.
StopReturnedAfterTwoWaits ==
    /\ pc \notin StopPcs
    /\ waits = 2
    /\ stopExit = "return"
    /\ LeaderAlive(leader)

\* C19 (as stated): whenever the handle is empty after a spawn, the spawned
\* server process has been observed (by wait) to have exited.
HandleEmptyOnlyWhenReaped ==
    (leader # "none" /\ server_proc = <<>>) => leader = "reaped"

\* C19 (amended): the handle is cleared on every exit of stop_server,
\* confirmed termination or not. After a spawn the handle is empty only once
\* stop_server has been left; while it is held the process has not been
\* reaped, and a reaped process means stop_server returned normally. The
\* handle is empty with the leader still alive only when a user interrupt
\* ended stop_server or when the wait after SIGKILL timed out.
HandleClearedOnEveryStopExit ==
    /\ (leader # "none" /\ server_proc = <<>>) => stopExit # "none"
    /\ (leader # "none" /\ server_proc # <<>>) => leader # "reaped"
    /\ leader = "reaped" => (server_proc = <<>> /\ stopExit = "return")
    /\ (server_proc = <<>> /\ LeaderAlive(leader)) =>
         \/ stopExit = "KeyboardInterrupt"
         \/ (stopExit = "return" /\ leader = "blocked"
             /\ sigs = <<"INT", "KILL">>)

\* C19 witness: a user interrupt ended stop_server during the grace period;
\* the handle is empty and the leader is alive, only SIGINT was sent.
HandleClearedWhileAlive ==
    /\ server_proc = <<>>
    /\ leader = "alive"
    /\ stopExit = "KeyboardInterrupt"
    /\ sigs = <<"INT">>

\* C20: whenever the session's server process is alive, the handle refers
\* to it (the model spawns at most one server per session).
LiveServerIsHeld == LeaderAlive(leader) => server_proc = <<1>>


\* C21: the client process is spawned and the client log opened only after
\* wait_for_listen has returned true in this session; a session that ends
\* aborted (run returns 2) has spawned no client and produced no client log.
ClientOnlyAfterReady ==
    /\ [](client # "none" => ok = <<TRUE>>)
    /\ [](testerLog => ok = <<TRUE>>)
    /\ [](rc # <<>> => ok = <<TRUE>>)
    /\ [][(client = "none" /\ client' # "none")
            => (pc = "tester" /\ ok = <<TRUE>>)]_vars
    /\ [][(~testerLog /\ testerLog') => (pc = "tester" /\ ok = <<TRUE>>)]_vars
    /\ []((ret = <<2>> \/ exitCode = <<2>>)
            => (client = "none" /\ ~testerLog /\ rc = <<>>))

\* C21 witness: the session has opened the client log and run the client
\* after a successful probe, and run has returned
ClientRanAfterReady ==
    /\ ok = <<TRUE>>
    /\ client = "exited"
    /\ testerLog
    /\ ret # <<>>

\* C22: whenever run goes on from the readiness probe to the tester step,
\* the listener that accepted the probe's connection is the session's own
\* server process, and that process is alive.
ProbeAnsweredByOwnServer ==
    [][(pc = "wait" /\ pc' = "tester")
        => (listener = "server" /\ LeaderAlive(leader))]_vars

\* C23: a diagnostic report the session presents was parsed from the log
\* written by this session's own server run, never from a log an earlier
\* run left in the output directory.
ReportFromOwnLog == vg # <<>> => report = "cur"

====
